---- MODULE Spec2Model ----
(***************************************************************************)
(* smartdim: display dimming / warming through gamma transfer tables.      *)
(*                                                                         *)
(* Real numbers are fixed-point integers: the value v stands for v/SCALE.  *)
(* SCALE is a multiple of 3 so that splitA = 1/3 and splitB = 2/3 are      *)
(* exact, and small enough that every product stays below 2^31.  A curve   *)
(* (array.array("f")) is a sequence of n fixed-point samples; storing a    *)
(* sample rounds it to the grid, as array("f") rounds to single precision. *)
(***************************************************************************)
EXTENDS Integers, Sequences, FiniteSets

SCALE == 3 * 10000

\* ------------------------------------------------------------------ bounds
MaxN == 5            \* sample counts n range over 2..MaxN
SliderSteps == 4     \* slider positions i/SliderSteps handed to apply_combined
RemapSteps == 200    \* slider positions i/RemapSteps handed to _remap_slider
PhaseSteps == 60     \* remapped positions i/PhaseSteps handed to the phase map
MaxDisplays == 2     \* display ids 1..MaxDisplays
PowBits == 14        \* binary digits of a fractional exponent used by Pow
KelvinSteps == 84    \* kelvins j * KelvinStride handed to _kelvin_to_gains
KelvinStride == 500
DefaultN == 3        \* stands for the default sample count, n = 512
ModSteps == 1        \* slider positions i/ModSteps handed to lut.py and warmth.py
AlphaSteps == 8      \* overlay alphas i/AlphaSteps
MaxScreens == 2      \* NSScreen.screens() reports 0..MaxScreens screens

\* --------------------------------------------------------- fixed-point kit
Min2(a, b) == IF a < b THEN a ELSE b
Max2(a, b) == IF a > b THEN a ELSE b
Abs(a) == IF a < 0 THEN -a ELSE a

\* a * b, rounded to the grid
MulFP(a, b) == (a * b + SCALE \div 2) \div SCALE
\* a / b (b > 0), rounded to the grid
DivFP(a, b) == (a * SCALE + b \div 2) \div b
\* the decimal literal num/den
Lit(num, den) == (num * SCALE) \div den

\* Python's round(): nearest integer to num/den (den > 0), ties to even
PyRound(num, den) ==
    LET q == num \div den
        r2 == 2 * (num - q * den)
    IN IF r2 < den THEN q
       ELSE IF r2 > den THEN q + 1
       ELSE IF q % 2 = 0 THEN q ELSE q + 1

\* floor(sqrt(v)) by Newton's iteration from a guess g >= sqrt(v), g > 0
RECURSIVE ISqrtIter(_, _)
ISqrtIter(v, g) ==
    LET h == (g + v \div g) \div 2
    IN IF h >= g THEN g ELSE ISqrtIter(v, h)

\* square root of a fixed-point number in [0, 1], rounded to the grid
SqrtFP(x) ==
    IF x <= 0 THEN 0
    ELSE LET v == x * SCALE
             r == ISqrtIter(v, SCALE)
         IN IF v - r * r > r THEN r + 1 ELSE r

\* x ** e for x in [0,1] and a fractional exponent e in [0,1): the product of
\* the roots x^(1/2), x^(1/4), ... selected by the binary digits of e.
RECURSIVE PowFrac(_, _, _)
PowFrac(r, e, k) ==
    IF k = 0 \/ e = 0 THEN SCALE
    ELSE LET r2 == SqrtFP(r)
             e2 == 2 * e
         IN IF e2 >= SCALE THEN MulFP(r2, PowFrac(r2, e2 - SCALE, k - 1))
            ELSE PowFrac(r2, e2, k - 1)

RECURSIVE PowInt(_, _)
PowInt(x, m) == IF m = 0 THEN SCALE ELSE MulFP(x, PowInt(x, m - 1))

\* float x ** e, x in [0,1], e >= 0
Pow(x, e) ==
    IF x = 0 THEN (IF e = 0 THEN SCALE ELSE 0)
    ELSE MulFP(PowInt(x, e \div SCALE), PowFrac(x, e % SCALE, PowBits))

\* math.log(num/den) for num/den >= 1: halve into [1,2), then
\* ln f = 2 atanh((f-1)/(f+1)) by its series.
LN2 == (69315 * SCALE) \div 100000
RECURSIVE LogHalvings(_, _)
LogHalvings(num, den) == IF num >= 2 * den THEN 1 + LogHalvings(num, 2 * den) ELSE 0
RECURSIVE Pow2(_)
Pow2(m) == IF m = 0 THEN 1 ELSE 2 * Pow2(m - 1)
\* 2 * atanh(z) = 2z (1 + z2/3 + z2^2/5 + z2^3/7 + z2^4/9), z2 = z*z
LogSeries(z, z2) ==
    2 * MulFP(z, SCALE + MulFP(z2, SCALE \div 3 + MulFP(z2, SCALE \div 5
                       + MulFP(z2, SCALE \div 7 + z2 \div 9))))
LogReduced(num, d) ==
    LogSeries(DivFP(num - d, num + d), MulFP(DivFP(num - d, num + d), DivFP(num - d, num + d)))
Log(num, den) ==
    LogHalvings(num, den) * LN2 + LogReduced(num, den * Pow2(LogHalvings(num, den)))

Clamp01(v) == IF v < 0 THEN 0 ELSE IF v > SCALE THEN SCALE ELSE v

\* [i / (n - 1) for i in range(n)], 1-indexed: the sample positions, and the
\* identity ramp once stored
Xs(n) == [i \in 1..n |-> DivFP(i - 1, n - 1)]

\* 1e-3: a control at or below it counts as exactly zero
ZERO_EPS == Lit(1, 1000)

\* ------------------------------------------------------------------ lut.py
WHITE_CAP == << >>          \* None; a cap c is <<c>>

RECURSIVE RunningMax(_, _)
RunningMax(c, i) == IF i = 1 THEN c[1] ELSE Max2(c[i], RunningMax(c, i - 1))

\* mutant: the clamp without the forward pass
monotone_clip_no_pass(ys) == [i \in 1..Len(ys) |-> Clamp01(ys[i])]

\* clamp every sample into [0,1], then one forward pass ys[i] >= ys[i-1]
monotone_clip(ys) ==
    LET c == [i \in 1..Len(ys) |-> Clamp01(ys[i])]
    IN [i \in 1..Len(ys) |-> RunningMax(c, i)]

smoothstep(edge0, edge1, x) ==
    IF x <= edge0 THEN 0
    ELSE IF x >= edge1 THEN SCALE
    ELSE LET t == DivFP(x - edge0, edge1 - edge0)
         IN MulFP(MulFP(t, t), 3 * SCALE - 2 * t)

\* the S-curve stage shared by both remaps: 0.5 + (s-0.5)*(1+k-k*4*|s-0.5|)
K_SCURVE == Lit(35, 100)
SCurve(s) ==
    LET h == SCALE \div 2
    IN h + MulFP(s - h, SCALE + K_SCURVE - MulFP(4 * K_SCURVE, Abs(s - h)))

G_LUT == Lit(65, 100)
lut_remap_slider(s_raw) == Clamp01(SCurve(Pow(Clamp01(s_raw), G_LUT)))

\* ys[-1] = min(ys[-1], white_cap) when a cap is configured
WhiteCapped(ys, n, white_cap) ==
    IF white_cap = << >> THEN ys ELSE [ys EXCEPT ![n] = Min2(ys[n], white_cap[1])]
\* return arr, arr, arr
Gray(arr) == <<arr, arr, arr>>

\* the edges of the guard band handed to _smoothstep
band_g0(guard) == Max2(0, Min2(SCALE, guard))
band_g1(g0, guard_width) ==
    Max2(g0, Min2(Lit(999, 1000), g0 + Max2(Lit(2, 1000), guard_width)))

\* the samples before the white cap and the clip
subtractive_ys(n, g0, g1, off, b) ==
    LET xs  == Xs(n)
        y(x) == LET y_sub == Max2(0, x - off)
                    w == smoothstep(g0, g1, x)
                IN MulFP(SCALE - w, x) + MulFP(w, y_sub)
    IN [i \in 1..n |-> IF b # SCALE THEN MulFP(y(xs[i]), b) ELSE y(xs[i])]

\* mutant: the white cap applied after _monotone_clip
build_lut_cap_after_clip(n, guard, guard_width, offset, beta, white_cap) ==
    Gray(WhiteCapped(
        monotone_clip(subtractive_ys(n, band_g0(guard),
                                     band_g1(band_g0(guard), guard_width),
                                     Max2(0, Min2(SCALE, offset)),
                                     Max2(0, Min2(SCALE, beta)))),
        n, white_cap))

build_lut_subtractive_guarded(n, guard, guard_width, offset, beta, white_cap) ==
    Gray(monotone_clip(WhiteCapped(
        subtractive_ys(n, band_g0(guard),
                       band_g1(band_g0(guard), guard_width),
                       Max2(0, Min2(SCALE, offset)),
                       Max2(0, Min2(SCALE, beta))),
        n, white_cap)))

\* --------------------------------------------------------------- warmth.py
G_WARMTH == Lit(75, 100)
warmth_remap_slider(s_raw) == Clamp01(SCurve(Pow(Clamp01(s_raw), G_WARMTH)))

\* Kelvin values are integers in tenths of a kelvin.
KELVIN_UNIT == 10     \* resolution: KELVIN_UNIT steps per kelvin
\* (R,G,B) in 0..1 of a white point; c = 255 * SCALE is full scale.
kelvin_to_rgb_channels(kel) ==
    LET k   == Max2(1000 * KELVIN_UNIT, Min2(40000 * KELVIN_UNIT, kel))  \* 100*KELVIN_UNIT*k
        den == 100 * KELVIN_UNIT
        c   == 255 * SCALE
        inv == (den * SCALE) \div (k - 60 * den)      \* 1 / (k - 60)
        r == IF k <= 66 * den THEN c
             ELSE Max2(0, Min2(c, (32970 * Pow(inv, Lit(13320, 100000))) \div 100))
        g == Max2(0, Min2(c,
               IF k <= 66 * den
               THEN (9947 * Log(k, den)) \div 100 - Lit(16112, 100)
               ELSE (28812 * Pow(inv, Lit(7551, 100000))) \div 100))
        b == IF k >= 66 * den THEN c
             ELSE IF k <= 19 * den THEN 0
             ELSE Max2(0, Min2(c,
                    (13852 * Log(k - 10 * den, den)) \div 100 - Lit(30504, 100)))
    IN <<(r + 127) \div 255, (g + 127) \div 255, (b + 127) \div 255>>

Max3(t) == Max2(t[1], Max2(t[2], t[3]))

\* 1e-6, the floor of a reference channel: the smallest positive grid value
GAIN_EPS == 1
D65 == 6500 * KELVIN_UNIT

\* gains that move D65 white to the target white, before any normalisation
kelvin_raw_gains(kel) ==
    LET ref == kelvin_to_rgb_channels(D65)
        tgt == kelvin_to_rgb_channels(kel)
    IN [c \in 1..3 |-> DivFP(tgt[c], Max2(GAIN_EPS, ref[c]))]

\* mutant: preserve_peak ignored
peak_normalize_never(gains, preserve_peak) == gains

\* if preserve_peak: scale the gains down by their maximum when it exceeds 1
peak_normalize(gains, preserve_peak) ==
    LET m == Max3(gains)
    IN IF preserve_peak /\ m > SCALE
       THEN [c \in 1..3 |-> DivFP(gains[c], m)]
       ELSE gains

kelvin_to_gains(kel, preserve_peak) ==
    peak_normalize(kelvin_raw_gains(kel), preserve_peak)

ROLLOFF == Lit(8, 100)
build_lut_color_tint(n, r_gain, g_gain, b_gain, beta, rolloff) ==
    LET xs == Xs(n)
        shoulder(x) == SCALE - MulFP(Lit(7, 100), smoothstep(SCALE - rolloff, SCALE, x))
        ch(gain, x) == LET v == MulFP(Min2(SCALE, MulFP(x, gain)), shoulder(x))
                       IN IF beta # SCALE THEN MulFP(v, beta) ELSE v
    IN << monotone_clip([i \in 1..n |-> ch(r_gain, xs[i])]),
          monotone_clip([i \in 1..n |-> ch(g_gain, xs[i])]),
          monotone_clip([i \in 1..n |-> ch(b_gain, xs[i])]) >>

\* ------------------------------------------------------------- composer.py
splitA == SCALE \div 3
splitB == (2 * SCALE) \div 3
GUARD_WIDTH == Lit(50, 1000)

\* <<guard, offset, beta>> of each phase at remapped position s
phase_A(s) ==
    LET u == DivFP(s, splitA)
    IN << Lit(94, 100) - MulFP(Lit(10, 100), u),
          0 + MulFP(Lit(14, 100), u),
          SCALE - MulFP(Lit(3, 100), u) >>

phase_B(s) ==
    LET u == DivFP(s - splitA, splitB - splitA)
    IN << Lit(84, 100) - MulFP(Lit(24, 100), u),
          Lit(14, 100) + MulFP(Lit(12, 100), u),
          Lit(97, 100) - MulFP(Lit(7, 100), u) >>

\* mutant: beta_start = 1.00, as lut.set_intensity has it
phase_C_from_one(s) ==
    LET u == DivFP(s - splitB, SCALE - splitB)
    IN << Lit(60, 100) - MulFP(Lit(22, 100), u),
          Lit(26, 100) + MulFP(Lit(18, 100), u),
          SCALE - MulFP(SCALE - Lit(55, 100), Pow(u, SCALE)) >>

phase_C(s) ==
    LET u == DivFP(s - splitB, SCALE - splitB)
        beta_floor == Lit(55, 100)
        beta_start == Lit(90, 100)
    IN << Lit(60, 100) - MulFP(Lit(22, 100), u),
          Lit(26, 100) + MulFP(Lit(18, 100), u),
          beta_start - MulFP(beta_start - beta_floor, Pow(u, SCALE)) >>

\* the if / elif / else over the remapped position
brightness_phase(s) ==
    IF s <= splitA THEN phase_A(s)
    ELSE IF s <= splitB THEN phase_B(s)
    ELSE phase_C(s)

\* << >> is None ("identity"); otherwise <<guard, guard_width, offset, beta>>
WithWidth(p) == <<p[1], GUARD_WIDTH, p[2], p[3]>>
brightness_params_from_slider(s_user) ==
    IF Clamp01(s_user) <= ZERO_EPS THEN << >>
    ELSE WithWidth(brightness_phase(lut_remap_slider(Clamp01(s_user))))

\* the identity ramp for None, else the guarded subtractive curve
brightness_lut_of(params, n) ==
    IF params = << >> THEN Gray(Xs(n))
    ELSE build_lut_subtractive_guarded(n, params[1], params[2], params[3],
                                       params[4], WHITE_CAP)
build_brightness_only_lut(intensity, n) ==
    brightness_lut_of(brightness_params_from_slider(intensity), n)

KELVIN_MIN == 1900 * KELVIN_UNIT
KELVIN_MAX == 6500 * KELVIN_UNIT
\* mireds are integers in hundredths of a mired
MIRED_UNIT == 100    \* resolution: MIRED_UNIT steps per mired
MEGA == 1000000
\* 1e6 / kel: kelvin to mired, and mired to kelvin
Mired(kel) == (MEGA * MIRED_UNIT * KELVIN_UNIT + kel \div 2) \div kel

\* mired interpolation of the remapped position s, clamped to the range
warmth_kelvin(s, kelvin_min, kelvin_max) ==
    LET m_max == Mired(kelvin_max)
        m_min == Mired(kelvin_min)
        m == m_max + MulFP(m_min - m_max, s)
    IN Max2(kelvin_min, Min2(kelvin_max, Mired(m)))

\* the gentle dim that grows with warmth
warmth_beta(s) ==
    IF s < Lit(4, 10)
    THEN SCALE - MulFP(Lit(2, 100), DivFP(s, Lit(4, 10)))
    ELSE LET u == DivFP(s - Lit(4, 10), Lit(6, 10))
         IN Lit(98, 100) - MulFP(Lit(8, 100), Pow(u, Lit(12, 10)))

\* << >> is "identity"; otherwise <<kelvin, beta>> of the warmth control
warmth_params_at(s) == <<warmth_kelvin(s, KELVIN_MIN, KELVIN_MAX), warmth_beta(s)>>
warmth_params_from_slider(strength) ==
    IF Clamp01(strength) <= ZERO_EPS THEN << >>
    ELSE warmth_params_at(warmth_remap_slider(Clamp01(strength)))

tint_of_gains(n, g, beta) == build_lut_color_tint(n, g[1], g[2], g[3], beta, ROLLOFF)
\* the identity ramp for "identity", else the tinted curve of the kelvin's gains
warmth_luts_of(p, n) ==
    IF p = << >> THEN Gray(Xs(n))
    ELSE tint_of_gains(n, kelvin_to_gains(p[1], TRUE), p[2])
build_warmth_only_luts(strength, n) ==
    warmth_luts_of(warmth_params_from_slider(strength), n)

\* j = int(round(max(0.0, min(1.0, y)) * (n - 1))), n the BASE curve's length
sample_index(y, n) == PyRound(Clamp01(y) * (n - 1), SCALE)

\* mutant: int() without round(): the index truncated
sample_truncated(arr, y, n) == arr[(Clamp01(y) * (n - 1)) \div SCALE + 1]

\* arr[int(round(clamp(y) * (n - 1)))], arr 0-indexed in the source
sample(arr, y, n) == arr[sample_index(y, n) + 1]

\* mutant: the composition the wrong way round, Base(Tint(x))
compose_luts_swapped(base, tint) ==
    LET n == Len(base[1])
    IN [c \in 1..3 |-> [i \in 1..n |-> sample(base[c], tint[c][i], n)]]

\* out(x) = Tint(Base(x)): the tint resampled at the base's values
compose_luts(base, tint) ==
    LET n == Len(base[1])
    IN [c \in 1..3 |-> [i \in 1..n |-> sample(tint[c], base[c][i], n)]]


\* arr[j] raises IndexError when j is not an index of the tint curve
compose_raises(base, tint) ==
    \E c \in 1..3 : \E i \in 1..Len(base[1]) :
        sample_index(base[c][i], Len(base[1])) + 1 > Len(tint[c])

\* ------------------------------------------------------------------- state
VARIABLES
    displays,    \* the list CGGetActiveDisplayList reports, in its order
    enumErr,     \* CGGetActiveDisplayList returns a non-zero error
    installed,   \* per display: << >> (system default) or <<n, r, g, b>>
    calls,       \* platform calls made by the most recent operation, in order
    ctl,         \* the caller's current controls: intensity, warmth, n
    op,          \* the most recent operation, its arguments and what it built
    call,        \* the most recent pure-function evaluation (SpecMath)
    lut_CURRENT,     \* lut.CURRENT: enabled, beta, n
    warmth_CURRENT,  \* warmth.CURRENT: enabled, kelvin, beta, n
    mod,         \* the most recent call into lut.py or warmth.py
    hist,        \* per module: how its latest table-changing call ended
    app,         \* menubar.AppDelegate: mute flags and slider values
    manager,     \* overlay.DimOverlayManager: alpha and the views' alphas
    screens,     \* how many screens NSScreen.screens() reports
    callbacks    \* which modules' reconfiguration callbacks are registered

vars == <<displays, enumErr, installed, calls, ctl, op, call,
          lut_CURRENT, warmth_CURRENT, mod, hist, app, manager, screens,
          callbacks>>
modvars == <<lut_CURRENT, warmth_CURRENT, mod, hist, callbacks>>
uivars == <<app, manager, screens>>

DisplayIds == 1..MaxDisplays
Ns == 2..MaxN
\* control values: below, on and above [0,1], and around the 1e-3 threshold
Sliders == {(i * SCALE) \div SliderSteps : i \in -1..(SliderSteps + 1)}
              \cup {ZERO_EPS, ZERO_EPS + 1}

\* the lists the platform can report: any ids, no id twice, in any order
DisplayLists ==
    {l \in UNION {[1..k -> DisplayIds] : k \in 0..MaxDisplays} :
        \A i \in 1..Len(l) : \A j \in 1..Len(l) : i # j => l[i] # l[j]}
AllDisplays == [i \in 1..MaxDisplays |-> i]
\* the same displays, listed by the platform in the opposite order
ReversedDisplays == [i \in 1..MaxDisplays |-> MaxDisplays + 1 - i]

\* mutant: the error code ignored
active_displays_despite_err == displays

\* list(displays)[:count], or [] on an error or an empty list
active_displays == IF enumErr \/ Len(displays) = 0 THEN << >> ELSE displays

SetCall(d, n, t) == [api |-> "set", display |-> d, n |-> n, r |-> t[1], g |-> t[2], b |-> t[3]]
RestoreCall == [api |-> "restore"]

\* CGSetDisplayTransferByTable on each display of ds, in order
SetAll(ds, n, t) == [i \in 1..Len(ds) |-> SetCall(ds[i], n, t)]
InstallOn(ds, n, t) ==
    [d \in DisplayIds |->
        IF \E i \in 1..Len(ds) : ds[i] = d THEN <<n, t[1], t[2], t[3]>>
        ELSE installed[d]]
AllDefault == [d \in DisplayIds |-> << >>]

Idle == [fn |-> "none"]

\* the two modules as imported, the delegate as launched, the manager as
\* initialised
ModulesInit ==
    /\ lut_CURRENT = [enabled |-> FALSE, beta |-> SCALE, n |-> DefaultN]
    /\ warmth_CURRENT = [enabled |-> FALSE, kelvin |-> 6500 * KELVIN_UNIT,
                         beta |-> SCALE, n |-> DefaultN]
    /\ mod = [name |-> "import"]
    /\ hist = [lut |-> "none", warmth |-> "none", tables |-> << >>]
    /\ callbacks = [lut |-> FALSE, warmth |-> FALSE]
UiInit ==
    /\ app = [running |-> TRUE, isMutedLUT |-> FALSE, isMutedWarmth |-> FALSE,
              lutSlider |-> 0, warmthSlider |-> 0]
    /\ manager = [alpha |-> 0, windows |-> << >>]
    /\ screens = 1

Init ==
    /\ displays \in DisplayLists
    /\ enumErr \in BOOLEAN
    /\ enumErr => displays = AllDisplays
    /\ installed = AllDefault
    /\ calls = << >>
    /\ ctl = [intensity |-> 0, warmth |-> 0, n |-> 2]
    /\ op = [name |-> "init"]
    /\ call = Idle
    /\ ModulesInit /\ UiInit

\* composer.restore_colors()
restore_colors ==
    /\ installed' = AllDefault
    /\ calls' = <<RestoreCall>>
    /\ op' = [name |-> "restore_colors"]
    /\ UNCHANGED <<displays, enumErr, ctl, call, modvars, uivars>>

\* mutant: restore as soon as either control is ~zero
either_zero(intensity, warmth_strength) ==
    intensity <= ZERO_EPS \/ warmth_strength <= ZERO_EPS

\* "if both are ~zero": the raw arguments, compared before any clamping
both_zero(intensity, warmth_strength) ==
    intensity <= ZERO_EPS /\ warmth_strength <= ZERO_EPS

\* mutant: the tint taken from warmth.CURRENT whenever warmth is enabled
apply_combined_from_current(intensity, warmth_strength, n) ==
    IF both_zero(intensity, warmth_strength)
    THEN /\ installed' = AllDefault
         /\ calls' = <<RestoreCall>>
         /\ op' = [name |-> "apply_combined", intensity |-> intensity,
                   warmth |-> warmth_strength, n |-> n, restored |-> TRUE]
         /\ UNCHANGED <<displays, enumErr, call, modvars, uivars>>
    ELSE \E base \in {build_brightness_only_lut(intensity, n)},
            tint \in {IF warmth_CURRENT.enabled
                      THEN tint_of_gains(n, kelvin_to_gains(warmth_CURRENT.kelvin, TRUE),
                                         warmth_CURRENT.beta)
                      ELSE build_warmth_only_luts(warmth_strength, n)} :
         \E out \in {compose_luts(base, tint)}, ds \in {active_displays} :
            /\ installed' = InstallOn(ds, n, out)
            /\ calls' = SetAll(ds, n, out)
            /\ op' = [name |-> "apply_combined", intensity |-> intensity,
                      warmth |-> warmth_strength, n |-> n, restored |-> FALSE,
                      params |-> brightness_params_from_slider(intensity),
                      base |-> base, tint |-> tint, out |-> out]
            /\ UNCHANGED <<displays, enumErr, call, modvars, uivars>>

\* composer.apply_combined(intensity, warmth_strength, n)
apply_combined(intensity, warmth_strength, n) ==
    IF both_zero(intensity, warmth_strength)
    THEN /\ installed' = AllDefault
         /\ calls' = <<RestoreCall>>
         /\ op' = [name |-> "apply_combined", intensity |-> intensity,
                   warmth |-> warmth_strength, n |-> n, restored |-> TRUE]
         /\ UNCHANGED <<displays, enumErr, call, modvars, uivars>>
    ELSE \E base \in {build_brightness_only_lut(intensity, n)},
            tint \in {build_warmth_only_luts(warmth_strength, n)} :
         \E out \in {compose_luts(base, tint)}, ds \in {active_displays} :
            /\ installed' = InstallOn(ds, n, out)
            /\ calls' = SetAll(ds, n, out)
            /\ op' = [name |-> "apply_combined", intensity |-> intensity,
                      warmth |-> warmth_strength, n |-> n, restored |-> FALSE,
                      params |-> brightness_params_from_slider(intensity),
                      base |-> base, tint |-> tint, out |-> out]
            /\ UNCHANGED <<displays, enumErr, call, modvars, uivars>>

\* the caller changes one control and applies
change_intensity(i) ==
    /\ ctl' = [ctl EXCEPT !.intensity = i]
    /\ apply_combined(i, ctl.warmth, ctl.n)

change_warmth(w) ==
    /\ ctl' = [ctl EXCEPT !.warmth = w]
    /\ apply_combined(ctl.intensity, w, ctl.n)

change_n(n) ==
    /\ ctl' = [ctl EXCEPT !.n = n]
    /\ apply_combined(ctl.intensity, ctl.warmth, n)

Next ==
    \/ restore_colors
    \/ \E i \in Sliders : change_intensity(i)
    \/ \E w \in Sliders : change_warmth(w)
    \/ \E n \in Ns : change_n(n)

Spec == Init /\ [][Next]_vars

\* ------------------------------------------ lut.py and warmth.py, with state
\* The operations of the two modules are written as results: what a call
\* leaves installed, in CURRENT and in the module's history, given what was
\* there before.  A handler that makes several calls chains the results.

\* CGSetDisplayTransferByTable on each display of ds, over the tables inst
InstallOver(inst, ds, n, t) ==
    [d \in DisplayIds |->
        IF \E i \in 1..Len(ds) : ds[i] = d THEN <<n, t[1], t[2], t[3]>>
        ELSE inst[d]]

\* what a table-changing call did: a table on some display, or on none
Outcome(applied) == IF applied THEN "installed" ELSE "nothing"

\* lut.set_intensity's phases over the remapped position
lut_phase_A(s) ==
    LET u == DivFP(s, splitA)
    IN << Lit(94, 100) - MulFP(Lit(10, 100), u),
          0 + MulFP(Lit(14, 100), u),
          SCALE - MulFP(Lit(3, 100), u) >>

lut_phase_B(s) ==
    LET u == DivFP(s - splitA, splitB - splitA)
    IN << Lit(84, 100) - MulFP(Lit(24, 100), u),
          Lit(14, 100) + MulFP(Lit(12, 100), u),
          Lit(97, 100) - MulFP(Lit(7, 100), u) >>

lut_phase_C(s) ==
    LET u == DivFP(s - splitB, SCALE - splitB)
        beta_floor == Lit(55, 100)
    IN << Lit(60, 100) - MulFP(Lit(22, 100), u),
          Lit(26, 100) + MulFP(Lit(18, 100), u),
          SCALE - MulFP(SCALE - beta_floor, Pow(u, SCALE)) >>

lut_phase(s) ==
    IF s <= splitA THEN lut_phase_A(s)
    ELSE IF s <= splitB THEN lut_phase_B(s)
    ELSE lut_phase_C(s)

\* <<guard, guard_width, offset, beta>> that set_intensity hands to
\* apply_lut_subtractive_guarded for a clamped intensity above 1e-3
set_intensity_params(s_user) == WithWidth(lut_phase(lut_remap_slider(s_user)))

\* lut.disable(): enabled = False, then restore
lut_disable_result(cur) ==
    [installed |-> AllDefault, calls |-> <<RestoreCall>>,
     CURRENT |-> [cur EXCEPT !.enabled = FALSE],
     applied |-> FALSE, outcome |-> "restored", tables |-> << >>]

\* apply_lut_subtractive_guarded(...), then CURRENT.update(update)
lut_apply_result(inst, t, ds, update) ==
    [installed |-> InstallOver(inst, ds, Len(t[1]), t),
     calls |-> SetAll(ds, Len(t[1]), t),
     CURRENT |-> update,
     applied |-> ds # << >>, outcome |-> Outcome(ds # << >>), tables |-> t]

\* lut.set_intensity(intensity, n)
set_intensity_built(inst, cur, p, n, ds) ==
    lut_apply_result(inst,
        build_lut_subtractive_guarded(n, p[1], p[2], p[3], p[4], WHITE_CAP), ds,
        [cur EXCEPT !.enabled = TRUE, !.beta = p[4], !.n = n])
set_intensity_result(inst, cur, intensity, n, ds) ==
    IF Clamp01(intensity) <= ZERO_EPS
    THEN [installed |-> AllDefault, calls |-> <<RestoreCall>>,
          CURRENT |-> [cur EXCEPT !.enabled = FALSE],
          applied |-> FALSE, outcome |-> "restored", tables |-> << >>]
    ELSE set_intensity_built(inst, cur, set_intensity_params(Clamp01(intensity)), n, ds)

\* lut.enable_demo_whites_first(): a fixed preset, n = 512
enable_demo_result(inst, cur, ds) ==
    lut_apply_result(inst,
        build_lut_subtractive_guarded(DefaultN, Lit(90, 100), Lit(5, 100),
                                      Lit(12, 100), SCALE, WHITE_CAP), ds,
        [cur EXCEPT !.enabled = TRUE, !.beta = SCALE, !.n = DefaultN])

\* lut.enable_flat(level, n): CURRENT is updated only when a display changed
enable_flat_result(inst, cur, level, n, ds) ==
    lut_apply_result(inst, Gray([i \in 1..n |-> Clamp01(level)]), ds,
        IF ds # << >> THEN [cur EXCEPT !.enabled = TRUE, !.n = n] ELSE cur)

\* lut.toggle(): disable when enabled, else set_intensity(0.4)
lut_toggle_result(inst, cur, ds) ==
    IF cur.enabled THEN lut_disable_result(cur)
    ELSE set_intensity_result(inst, cur, Lit(4, 10), DefaultN, ds)

\* warmth.set_warmth's kelvin and beta for the remapped position s
set_warmth_kelvin(s, kelvin_min, kelvin_max) ==
    LET m_max == Mired(kelvin_max)
        m_min == Mired(kelvin_min)
        m == m_max + MulFP(m_min - m_max, s)
    IN Max2(kelvin_min, Min2(kelvin_max, Mired(m)))

set_warmth_beta(s, beta_curve) ==
    IF ~beta_curve THEN SCALE
    ELSE IF s < Lit(4, 10)
    THEN SCALE - MulFP(Lit(2, 100), DivFP(s, Lit(4, 10)))
    ELSE LET u == DivFP(s - Lit(4, 10), Lit(6, 10))
         IN Lit(98, 100) - MulFP(Lit(8, 100), Pow(u, Lit(12, 10)))

\* _apply_rgb_tables(r, g, b), and CURRENT.update({...}) only if it returned
\* True
warmth_installed(inst, cur, kel, beta, n, ds, t) ==
    [installed |-> InstallOver(inst, ds, Len(t[1]), t),
     calls |-> SetAll(ds, Len(t[1]), t),
     CURRENT |-> IF ds # << >>
                 THEN [cur EXCEPT !.enabled = TRUE, !.kelvin = kel,
                                  !.beta = beta, !.n = n]
                 ELSE cur,
     applied |-> ds # << >>, outcome |-> Outcome(ds # << >>), tables |-> t]
warmth_apply_result(inst, cur, kel, beta, n, ds) ==
    warmth_installed(inst, cur, kel, beta, n, ds,
                     tint_of_gains(n, kelvin_to_gains(kel, TRUE), beta))

\* warmth.set_warmth(strength, n=, kelvin_min=, kelvin_max=, beta_curve=)
set_warmth_at(inst, cur, s, n, kelvin_min, kelvin_max, beta_curve, ds) ==
    warmth_apply_result(inst, cur, set_warmth_kelvin(s, kelvin_min, kelvin_max),
                        set_warmth_beta(s, beta_curve), n, ds)
set_warmth_result(inst, cur, strength, n, kelvin_min, kelvin_max, beta_curve, ds) ==
    IF Clamp01(strength) <= ZERO_EPS
    THEN [installed |-> AllDefault, calls |-> <<RestoreCall>>,
          CURRENT |-> [cur EXCEPT !.enabled = FALSE],
          applied |-> FALSE, outcome |-> "restored", tables |-> << >>]
    ELSE set_warmth_at(inst, cur, warmth_remap_slider(Clamp01(strength)), n,
                       kelvin_min, kelvin_max, beta_curve, ds)

\* warmth.disable(): enabled = False, then restore
warmth_disable_result(cur) ==
    [installed |-> AllDefault, calls |-> <<RestoreCall>>,
     CURRENT |-> [cur EXCEPT !.enabled = FALSE],
     applied |-> FALSE, outcome |-> "restored", tables |-> << >>]

\* warmth.set_kelvin(kelvin, n=, beta=)
set_kelvin_clamp(kelvin) ==
    Max2(1000 * KELVIN_UNIT,
         Min2(IF kelvin >= 6500 * KELVIN_UNIT THEN 6500 * KELVIN_UNIT
              ELSE 10000 * KELVIN_UNIT, kelvin))
set_kelvin_result(inst, cur, kelvin, n, beta, ds) ==
    warmth_apply_result(inst, cur, set_kelvin_clamp(kelvin), beta, n, ds)

\* warmth.reapply_if_enabled(): rebuild from CURRENT and install, CURRENT
\* untouched; nothing at all when not enabled
reapply_installed(inst, cur, ds, t) ==
    [installed |-> InstallOver(inst, ds, Len(t[1]), t),
     calls |-> SetAll(ds, Len(t[1]), t),
     CURRENT |-> cur, applied |-> ds # << >>, tables |-> t]
\* mutant: the stored beta dropped, the default beta = 1.0 used
reapply_default_beta(inst, cur, ds) ==
    IF ~cur.enabled
    THEN [installed |-> inst, calls |-> << >>, CURRENT |-> cur,
          applied |-> FALSE, tables |-> << >>]
    ELSE reapply_installed(inst, cur, ds,
            tint_of_gains(cur.n, kelvin_to_gains(cur.kelvin, TRUE), SCALE))

reapply_result(inst, cur, ds) ==
    IF ~cur.enabled
    THEN [installed |-> inst, calls |-> << >>, CURRENT |-> cur,
          applied |-> FALSE, tables |-> << >>]
    ELSE reapply_installed(inst, cur, ds,
            tint_of_gains(cur.n, kelvin_to_gains(cur.kelvin, TRUE), cur.beta))

\* a step that does not call into a module leaves that module as it was
no_call(inst, cur) ==
    [installed |-> inst, calls |-> << >>, CURRENT |-> cur,
     applied |-> FALSE, outcome |-> "", tables |-> << >>]

\* what a call into lut.py leaves behind
LutCall(name, r) ==
    /\ installed' = r.installed
    /\ calls' = r.calls
    /\ lut_CURRENT' = r.CURRENT
    /\ mod' = [name |-> name, applied |-> r.applied]
    /\ hist' = [hist EXCEPT !.lut = r.outcome]
    /\ UNCHANGED <<displays, enumErr, ctl, op, call, warmth_CURRENT, callbacks,
                   uivars>>

\* what a table-changing call into warmth.py leaves behind
WarmthCall(name, r) ==
    /\ installed' = r.installed
    /\ calls' = r.calls
    /\ warmth_CURRENT' = r.CURRENT
    /\ mod' = [name |-> name, applied |-> r.applied]
    /\ hist' = [hist EXCEPT !.warmth = r.outcome,
                            !.tables = IF r.applied THEN r.tables ELSE @]
    /\ UNCHANGED <<displays, enumErr, ctl, op, call, lut_CURRENT, callbacks,
                   uivars>>

lut_set_intensity(intensity, n) ==
    \E r \in {set_intensity_result(installed, lut_CURRENT, intensity, n,
                                   active_displays)} :
        LutCall("set_intensity", r)

enable_demo_whites_first ==
    \E r \in {enable_demo_result(installed, lut_CURRENT, active_displays)} :
        LutCall("enable_demo_whites_first", r)

\* enable_aggressive / enable_extra_aggressive / enable_nuclear
enable_preset(level) ==
    \E r \in {set_intensity_result(installed, lut_CURRENT, level, DefaultN,
                                   active_displays)} :
        LutCall("enable_preset", r)

enable_flat(level, n) ==
    \E r \in {enable_flat_result(installed, lut_CURRENT, level, n,
                                 active_displays)} :
        LutCall("enable_flat", r)

lut_disable ==
    \E r \in {lut_disable_result(lut_CURRENT)} : LutCall("disable", r)

lut_toggle ==
    \E r \in {lut_toggle_result(installed, lut_CURRENT, active_displays)} :
        LutCall("toggle", r)

set_warmth(strength, n, beta_curve) ==
    \E r \in {set_warmth_result(installed, warmth_CURRENT, strength, n,
                                KELVIN_MIN, KELVIN_MAX, beta_curve,
                                active_displays)} :
        WarmthCall("set_warmth", r)

set_kelvin(kelvin, n, beta) ==
    \E r \in {set_kelvin_result(installed, warmth_CURRENT, kelvin, n, beta,
                                active_displays)} :
        WarmthCall("set_kelvin", r)

warmth_disable ==
    \E r \in {warmth_disable_result(warmth_CURRENT)} : WarmthCall("disable", r)

\* warmth.reapply_if_enabled(), called directly
reapply_if_enabled ==
    \E r \in {reapply_result(installed, warmth_CURRENT, active_displays)} :
        /\ installed' = r.installed
        /\ calls' = r.calls
        /\ mod' = [name |-> "reapply_if_enabled", applied |-> r.applied]
        /\ UNCHANGED <<displays, enumErr, ctl, op, call, lut_CURRENT,
                       warmth_CURRENT, hist, callbacks, uivars>>

\* the platform's display list changes; nothing of the program runs yet
displays_change(ds, err) ==
    /\ (err => ds = AllDisplays)
    /\ <<ds, err>> # <<displays, enumErr>>
    /\ displays' = ds
    /\ enumErr' = err
    /\ mod' = [name |-> "displays_change", applied |-> FALSE]
    /\ UNCHANGED <<installed, calls, ctl, op, call, lut_CURRENT, warmth_CURRENT,
                   hist, callbacks, uivars>>

\* register_display_callbacks() / unregister_display_callbacks() of lut.py
\* (m = "lut") and of warmth.py (m = "warmth")
Registration(name, m, on) ==
    /\ callbacks' = [callbacks EXCEPT ![m] = on]
    /\ calls' = << >>
    /\ mod' = [name |-> name, applied |-> FALSE]
    /\ UNCHANGED <<displays, enumErr, installed, ctl, op, call, lut_CURRENT,
                   warmth_CURRENT, hist, uivars>>
lut_register_display_callbacks ==
    Registration("register_display_callbacks", "lut", TRUE)
lut_unregister_display_callbacks ==
    Registration("unregister_display_callbacks", "lut", FALSE)
warmth_register_display_callbacks ==
    Registration("register_display_callbacks", "warmth", TRUE)
warmth_unregister_display_callbacks ==
    Registration("unregister_display_callbacks", "warmth", FALSE)

\* the platform delivers a reconfiguration event, with or without a change
\* of the list, to lut._display_reconfig_callback while it is registered:
\* lut.reapply_if_enabled is a pass, no table is touched
lut_display_reconfig_callback ==
    /\ callbacks.lut
    /\ calls' = << >>
    /\ mod' = [name |-> "lut_display_reconfig_callback", applied |-> FALSE]
    /\ UNCHANGED <<displays, enumErr, installed, ctl, op, call, lut_CURRENT,
                   warmth_CURRENT, hist, callbacks, uivars>>

\* ... and to warmth._display_reconfig_callback while it is registered:
\* warmth.reapply_if_enabled()
warmth_display_reconfig_callback ==
    /\ callbacks.warmth
    /\ \E r \in {reapply_result(installed, warmth_CURRENT, active_displays)} :
        /\ installed' = r.installed
        /\ calls' = r.calls
        /\ mod' = [name |-> "warmth_display_reconfig_callback",
                   applied |-> r.applied]
    /\ UNCHANGED <<displays, enumErr, ctl, op, call, lut_CURRENT,
                   warmth_CURRENT, hist, callbacks, uivars>>

\* lut.apply_lut_subtractive_guarded(...), called directly: CURRENT untouched
apply_lut_subtractive_guarded(guard, guard_width, offset, n, beta, white_cap) ==
    \E r \in {lut_apply_result(installed,
                  build_lut_subtractive_guarded(n, guard, guard_width, offset,
                                                beta, white_cap),
                  active_displays, lut_CURRENT)} :
        LutCall("apply_lut_subtractive_guarded", r)

\* composer.apply_combined, called between the modules' own calls
apply_combined_direct(intensity, warmth_strength, n) ==
    /\ apply_combined(intensity, warmth_strength, n)
    /\ UNCHANGED ctl

ModSliders == {(i * SCALE) \div ModSteps : i \in 0..ModSteps}
ModNs == {2, DefaultN}
ModKelvins == {2700 * KELVIN_UNIT, 12000 * KELVIN_UNIT}
Presets == {Lit(70, 100), Lit(85, 100), SCALE}

\* the table-changing operations of both modules, the display list changing
\* between them
NextModules ==
    \/ \E i \in ModSliders : lut_set_intensity(i, DefaultN)
    \/ enable_demo_whites_first
    \/ \E level \in Presets : enable_preset(level)
    \/ enable_flat(Lit(20, 100), DefaultN)
    \/ lut_disable
    \/ lut_toggle
    \/ apply_lut_subtractive_guarded(Lit(90, 100), Lit(5, 100), Lit(12, 100),
                                     DefaultN, SCALE, WHITE_CAP)
    \/ \E s \in ModSliders : set_warmth(s, DefaultN, TRUE)
    \/ \E k \in ModKelvins : set_kelvin(k, DefaultN, Lit(9, 10))
    \/ warmth_disable
    \/ \E ds \in {<< >>, AllDisplays}, err \in BOOLEAN : displays_change(ds, err)

\* warmth.py with its re-apply: the callbacks registered and unregistered,
\* the display list changing, reconfiguration events delivered
NextReapply ==
    \/ \E s \in ModSliders, n \in ModNs, bc \in BOOLEAN : set_warmth(s, n, bc)
    \/ \E k \in ModKelvins : set_kelvin(k, DefaultN, Lit(9, 10))
    \/ warmth_disable
    \/ reapply_if_enabled
    \/ lut_register_display_callbacks
    \/ lut_unregister_display_callbacks
    \/ warmth_register_display_callbacks
    \/ warmth_unregister_display_callbacks
    \/ \E ds \in {<< >>, <<MaxDisplays>>, AllDisplays, ReversedDisplays},
          err \in BOOLEAN : displays_change(ds, err)
    \/ lut_display_reconfig_callback
    \/ warmth_display_reconfig_callback

\* every display active when the modules are imported
InitModules ==
    /\ displays = AllDisplays
    /\ enumErr = FALSE
    /\ installed = AllDefault
    /\ calls = << >>
    /\ ctl = [intensity |-> 0, warmth |-> 0, n |-> 2]
    /\ op = [name |-> "init"]
    /\ call = Idle
    /\ ModulesInit /\ UiInit

SpecModules == InitModules /\ [][NextModules]_vars
SpecReapply == InitModules /\ [][NextReapply]_vars

\* composer.apply_combined between calls into the two modules
NextCombined ==
    \/ \E i \in ModSliders, w \in ModSliders, n \in ModNs :
          apply_combined_direct(i, w, n)
    \/ \E i \in ModSliders : lut_set_intensity(i, DefaultN)
    \/ lut_disable
    \/ \E s \in ModSliders : set_warmth(s, DefaultN, TRUE)
    \/ \E k \in ModKelvins : set_kelvin(k, DefaultN, SCALE)
    \/ warmth_disable

SpecCombined == InitModules /\ [][NextCombined]_vars

\* ---------------------------------------------------------------- menubar.py
\* "if val <= 0.001: lut_disable() else: lut_set_intensity(val)"
menubar_lut_apply(inst, cur, val, ds) ==
    IF val <= ZERO_EPS THEN lut_disable_result(cur)
    ELSE set_intensity_result(inst, cur, val, DefaultN, ds)

\* "if val <= 0.001: warmth_disable() else: set_warmth(val)"
menubar_warmth_apply(inst, cur, val, ds) ==
    IF val <= ZERO_EPS THEN warmth_disable_result(cur)
    ELSE set_warmth_result(inst, cur, val, DefaultN, KELVIN_MIN, KELVIN_MAX,
                           TRUE, ds)

\* the state a handler leaves: rl is what it did through lut.py, rw what it
\* then did through warmth.py, a the delegate's fields
Handled(name, a, rl, rw) ==
    /\ app.running
    /\ app' = a
    /\ installed' = rw.installed
    /\ calls' = rl.calls \o rw.calls
    /\ lut_CURRENT' = rl.CURRENT
    /\ warmth_CURRENT' = rw.CURRENT
    /\ mod' = [name |-> name, applied |-> rl.applied \/ rw.applied]
    /\ hist' = [lut |-> IF rl.outcome = "" THEN hist.lut ELSE rl.outcome,
                warmth |-> IF rw.outcome = "" THEN hist.warmth ELSE rw.outcome,
                tables |-> IF rw.applied THEN rw.tables ELSE hist.tables]
    /\ callbacks' = IF a.running THEN callbacks
                    ELSE [lut |-> FALSE, warmth |-> FALSE]
    /\ UNCHANGED <<displays, enumErr, ctl, op, call, manager, screens>>

lutSliderChanged_(val) ==
    \E rl \in {IF app.isMutedLUT THEN no_call(installed, lut_CURRENT)
               ELSE menubar_lut_apply(installed, lut_CURRENT, val,
                                      active_displays)} :
        Handled("lutSliderChanged_", [app EXCEPT !.lutSlider = val], rl,
                no_call(rl.installed, warmth_CURRENT))

toggleBrightnessAction_ ==
    \E rl \in {IF ~app.isMutedLUT THEN lut_disable_result(lut_CURRENT)
               ELSE menubar_lut_apply(installed, lut_CURRENT, app.lutSlider,
                                      active_displays)} :
        Handled("toggleBrightnessAction_",
                [app EXCEPT !.isMutedLUT = ~app.isMutedLUT], rl,
                no_call(rl.installed, warmth_CURRENT))

warmthSliderChanged_(val) ==
    \E rw \in {IF app.isMutedWarmth THEN no_call(installed, warmth_CURRENT)
               ELSE menubar_warmth_apply(installed, warmth_CURRENT, val,
                                         active_displays)} :
        Handled("warmthSliderChanged_", [app EXCEPT !.warmthSlider = val],
                no_call(installed, lut_CURRENT), rw)

toggleWarmthAction_ ==
    \E rw \in {IF ~app.isMutedWarmth THEN warmth_disable_result(warmth_CURRENT)
               ELSE menubar_warmth_apply(installed, warmth_CURRENT,
                                         app.warmthSlider, active_displays)} :
        Handled("toggleWarmthAction_",
                [app EXCEPT !.isMutedWarmth = ~app.isMutedWarmth],
                no_call(installed, lut_CURRENT), rw)

\* lut_disable(), then warmth_disable(); the sliders keep their values
resetAction_ ==
    Handled("resetAction_", app, lut_disable_result(lut_CURRENT),
            warmth_disable_result(warmth_CURRENT))

\* both disables, both callbacks unregistered, then the application
\* terminates
quitAction_ ==
    Handled("quitAction_", [app EXCEPT !.running = FALSE],
            lut_disable_result(lut_CURRENT),
            warmth_disable_result(warmth_CURRENT))

\* NSWorkspaceDidWakeNotification: brightness first, then warmth
reapplyNotif_ ==
    \E rl \in {IF ~app.isMutedLUT /\ app.lutSlider > ZERO_EPS
               THEN set_intensity_result(installed, lut_CURRENT, app.lutSlider,
                                         DefaultN, active_displays)
               ELSE lut_disable_result(lut_CURRENT)} :
    \E rw \in {IF ~app.isMutedWarmth /\ app.warmthSlider > ZERO_EPS
               THEN set_warmth_result(rl.installed, warmth_CURRENT,
                                      app.warmthSlider, DefaultN, KELVIN_MIN,
                                      KELVIN_MAX, TRUE, active_displays)
               ELSE warmth_disable_result(warmth_CURRENT)} :
        Handled("reapplyNotif_", app, rl, rw)

\* NSSlider values between minValue 0.0 and maxValue 1.0
SliderValues == ModSliders \cup {ZERO_EPS, ZERO_EPS + 1, SCALE \div 2}

NextMenubar ==
    \/ \E val \in SliderValues : lutSliderChanged_(val)
    \/ toggleBrightnessAction_
    \/ \E val \in SliderValues : warmthSliderChanged_(val)
    \/ toggleWarmthAction_
    \/ resetAction_
    \/ quitAction_
    \/ reapplyNotif_
    \/ \E ds \in {<< >>, AllDisplays}, err \in BOOLEAN : displays_change(ds, err)
    \/ lut_display_reconfig_callback
    \/ warmth_display_reconfig_callback

\* applicationDidFinishLaunching_: flags clear, sliders at 0.0, both modules'
\* display callbacks registered
InitMenubar ==
    /\ displays = AllDisplays
    /\ enumErr = FALSE
    /\ installed = AllDefault
    /\ calls = << >>
    /\ ctl = [intensity |-> 0, warmth |-> 0, n |-> 2]
    /\ op = [name |-> "init"]
    /\ call = Idle
    /\ lut_CURRENT = [enabled |-> FALSE, beta |-> SCALE, n |-> DefaultN]
    /\ warmth_CURRENT = [enabled |-> FALSE, kelvin |-> 6500 * KELVIN_UNIT,
                         beta |-> SCALE, n |-> DefaultN]
    /\ mod = [name |-> "applicationDidFinishLaunching_"]
    /\ hist = [lut |-> "none", warmth |-> "none", tables |-> << >>]
    /\ callbacks = [lut |-> TRUE, warmth |-> TRUE]
    /\ UiInit

SpecMenubar == InitMenubar /\ [][NextMenubar]_vars

\* ---------------------------------------------------------------- overlay.py
\* DimOverlayManager.disable(): every window ordered out and dropped, alpha 0.0
overlay_disable_result(m) == [alpha |-> 0, windows |-> << >>]

\* _DimView.initWithAlpha_(a)
initWithAlpha_(a) == Max2(0, Min2(SCALE, a))

\* DimOverlayManager._build_all(): self.disable() first, then one panel per
\* screen, its view initialised with self.alpha as it is by then
overlay_views(m, k) ==
    [alpha |-> m.alpha, windows |-> [i \in 1..k |-> initWithAlpha_(m.alpha)]]
build_all(m, k) == overlay_views(overlay_disable_result(m), k)

\* what an overlay call leaves behind
OverlayCall(name, a, m) ==
    /\ manager' = m
    /\ mod' = [name |-> name, alpha |-> a]
    /\ UNCHANGED <<displays, enumErr, installed, calls, ctl, op, call,
                   lut_CURRENT, warmth_CURRENT, hist, callbacks, app>>

\* DimOverlayManager.enable_(alpha)
enable_(alpha) ==
    /\ OverlayCall("enable_", alpha,
                   build_all([manager EXCEPT !.alpha = Max2(0, Min2(SCALE, alpha))],
                             screens))
    /\ UNCHANGED screens

\* DimOverlayManager.setAlpha_(alpha): the manager's alpha and every view's
setAlpha_(alpha) ==
    /\ OverlayCall("setAlpha_", alpha,
                   [alpha |-> Max2(0, Min2(SCALE, alpha)),
                    windows |-> [i \in 1..Len(manager.windows) |->
                                    Max2(0, Min2(SCALE, Max2(0, Min2(SCALE, alpha))))]])
    /\ UNCHANGED screens

overlay_disable ==
    /\ OverlayCall("disable", 0, overlay_disable_result(manager))
    /\ UNCHANGED screens

\* the platform's screen list changes; nothing of the program runs yet
screens_change(k) ==
    /\ k # screens
    /\ screens' = k
    /\ mod' = [name |-> "screens_change", alpha |-> 0]
    /\ UNCHANGED <<displays, enumErr, installed, calls, ctl, op, call,
                   lut_CURRENT, warmth_CURRENT, hist, callbacks, app, manager>>

\* NSApplicationDidChangeScreenParametersNotification is delivered, the
\* number of screens changed or not
screensChanged_ ==
    /\ OverlayCall("screensChanged_", 0,
                   IF manager.alpha > 0 THEN build_all(manager, screens)
                   ELSE manager)
    /\ UNCHANGED screens

OverlayAlphas == {(i * SCALE) \div AlphaSteps : i \in -1..(AlphaSteps + 1)}
                    \cup {Lit(35, 100)}

NextOverlay ==
    \/ \E a \in OverlayAlphas : enable_(a)
    \/ \E a \in OverlayAlphas : setAlpha_(a)
    \/ overlay_disable
    \/ \E k \in 0..MaxScreens : screens_change(k)
    \/ screensChanged_

SpecOverlay == InitModules /\ [][NextOverlay]_vars

\* ------------------------------------------- pure functions, called directly
\* Each eval_ action is one call of a function of the source on arguments
\* drawn from a bounded set; `call` records the arguments and the results.
RemapPoints == {(i * SCALE) \div RemapSteps : i \in -1..(RemapSteps + 1)}
PhasePoints == {(i * SCALE) \div PhaseSteps : i \in 0..PhaseSteps} \cup {splitA, splitB}
Kelvins == {j * KelvinStride * KELVIN_UNIT : j \in 0..KelvinSteps}
               \cup {(6500 + 25 * j) * KELVIN_UNIT : j \in 0..8}

\* tunings in and out of range: guards up to and beyond 1.0, widths down to
\* zero and below
Guards == {-SCALE, 0, SCALE \div 2, Lit(997, 1000), Lit(998, 1000),
           Lit(9995, 10000), SCALE, 2 * SCALE}
Widths == {-Lit(1, 10), 0, Lit(1, 1000), GUARD_WIDTH, 2 * SCALE}
Offsets == {-Lit(1, 2), 0, Lit(3, 10), 2 * SCALE}
Betas == {-SCALE, 0, Lit(1, 2), SCALE, 2 * SCALE}
WhiteCaps == {<< >>, <<-Lit(1, 2)>>, <<Lit(1, 2)>>, <<2 * SCALE>>}

InitMath ==
    /\ displays = AllDisplays
    /\ enumErr = FALSE
    /\ installed = AllDefault
    /\ calls = << >>
    /\ ctl = [intensity |-> 0, warmth |-> 0, n |-> 2]
    /\ op = [name |-> "init"]
    /\ call = Idle
    /\ ModulesInit /\ UiInit

MainUnchanged ==
    UNCHANGED <<displays, enumErr, installed, calls, ctl, op, modvars, uivars>>

\* lut._remap_slider and warmth._remap_slider at a slider position a and at
\* the next one, b
eval_remap_slider(a) ==
    /\ call = Idle
    /\ \E b \in {a + SCALE \div RemapSteps} :
         call' = [fn |-> "remap_slider", a |-> a, b |-> b,
                  lut_a |-> lut_remap_slider(a), lut_b |-> lut_remap_slider(b),
                  warmth_a |-> warmth_remap_slider(a),
                  warmth_b |-> warmth_remap_slider(b)]
    /\ MainUnchanged

\* the phase map of _brightness_params_from_slider at a remapped position s
\* and one grid step after it
eval_brightness_phase(s) ==
    /\ call = Idle
    /\ call' = [fn |-> "brightness_phase", s |-> s,
                at |-> brightness_phase(s),
                after |-> brightness_phase(Min2(SCALE, s + 1))]
    /\ MainUnchanged

\* the kelvin and beta _build_warmth_only_luts derives from a strength
eval_warmth_params(strength) ==
    /\ call = Idle
    /\ call' = [fn |-> "warmth_params", strength |-> strength,
                params |-> warmth_params_from_slider(strength)]
    /\ MainUnchanged

\* warmth._kelvin_to_gains(k, preserve_peak)
eval_kelvin_to_gains(k, preserve_peak) ==
    /\ call = Idle
    /\ call' = [fn |-> "kelvin_to_gains", kelvin |-> k,
                preserve_peak |-> preserve_peak,
                raw |-> kelvin_raw_gains(k),
                gains |-> kelvin_to_gains(k, preserve_peak)]
    /\ MainUnchanged

\* _compose_luts on a brightness curve of n_base samples and a warmth curve
\* of n_tint samples; raised is the IndexError of arr[j]
composed_or_raised(base, tint, raised) ==
    [fn |-> "compose_luts", base |-> base, tint |-> tint, raised |-> raised,
     out |-> IF raised THEN << >> ELSE compose_luts(base, tint)]
eval_compose_luts(intensity, warmth_strength, n_base, n_tint) ==
    /\ call = Idle
    /\ \E base \in {build_brightness_only_lut(intensity, n_base)},
          tint \in {build_warmth_only_luts(warmth_strength, n_tint)} :
         call' = composed_or_raised(base, tint, compose_raises(base, tint))
    /\ MainUnchanged

\* build_lut_subtractive_guarded on any tuning, with the band edges it
\* hands to _smoothstep
eval_build_lut(n, guard, guard_width, offset, beta, white_cap) ==
    /\ call = Idle
    /\ call' = [fn |-> "build_lut", n |-> n, guard |-> guard,
                guard_width |-> guard_width, offset |-> offset, beta |-> beta,
                white_cap |-> white_cap,
                g0 |-> band_g0(guard),
                g1 |-> band_g1(band_g0(guard), guard_width),
                lut |-> build_lut_subtractive_guarded(n, guard, guard_width,
                                                      offset, beta, white_cap)]
    /\ MainUnchanged

\* the parameters composer._brightness_params_from_slider and
\* lut.set_intensity derive from one intensity
eval_intensity_params(s_user) ==
    /\ call = Idle
    /\ Clamp01(s_user) > ZERO_EPS
    /\ call' = [fn |-> "intensity_params", s_user |-> s_user,
                s |-> lut_remap_slider(Clamp01(s_user)),
                composer |-> brightness_params_from_slider(s_user),
                lut |-> set_intensity_params(Clamp01(s_user))]
    /\ MainUnchanged

eval_return ==
    /\ call # Idle
    /\ call' = Idle
    /\ MainUnchanged

NextMath ==
    \/ \E a \in RemapPoints : eval_remap_slider(a)
    \/ \E s \in PhasePoints : eval_brightness_phase(s)
    \/ \E x \in RemapPoints : eval_warmth_params(x)
    \/ \E k \in Kelvins, pp \in BOOLEAN : eval_kelvin_to_gains(k, pp)
    \/ \E i \in ModSliders, w \in ModSliders, nb \in Ns, nt \in Ns :
          eval_compose_luts(i, w, nb, nt)
    \/ \E i \in RemapPoints : eval_intensity_params(i)
    \/ \E n \in Ns, g \in Guards, gw \in Widths, off \in Offsets,
          b \in Betas, cap \in WhiteCaps :
          eval_build_lut(n, g, gw, off, b, cap)
    \/ eval_return

SpecMath == InitMath /\ [][NextMath]_vars

\* ------------------------------------------------------------------ claims
InUnit(c) == \A i \in 1..Len(c) : 0 <= c[i] /\ c[i] <= SCALE
NonDecreasing(c) == \A i \in 1..(Len(c) - 1) : c[i] <= c[i + 1]
ValidCurve(c, n) == Len(c) = n /\ InUnit(c) /\ NonDecreasing(c)
Applied == op.name = "apply_combined"
Composed == Applied /\ ~op.restored
SetCalls == {i \in 1..Len(calls) : calls[i].api = "set"}
RestoreCalls == {i \in 1..Len(calls) : calls[i].api = "restore"}

\* C1: every channel curve apply_combined composes, and every one it hands
\* to the display API, has n samples, all in [0,1], non-decreasing in the
\* sample index.
C1_CurvesValid ==
    Composed =>
        /\ \A c \in 1..3 : ValidCurve(op.out[c], op.n)
        /\ \A i \in SetCalls :
              /\ calls[i].n = op.n
              /\ ValidCurve(calls[i].r, op.n)
              /\ ValidCurve(calls[i].g, op.n)
              /\ ValidCurve(calls[i].b, op.n)
\* both controls active, a table handed over, and the forward pass of
\* _monotone_clip has acted (a plateau strictly inside the curve)
C1_Witness ==
    /\ Composed /\ SetCalls # {}
    /\ op.intensity > ZERO_EPS /\ op.warmth > ZERO_EPS
    /\ \E i \in 2..(op.n - 1) : op.base[1][i] = op.base[1][i + 1] /\ op.base[1][i] > 0

\* C2: apply_combined calls restore exactly when both controls are <= 1e-3,
\* and then installs no table; otherwise it never restores and every table
\* it installs is the composed one.
C2_RestoreIffBothZero ==
    Applied =>
        /\ (RestoreCalls # {}) <=> (op.intensity <= ZERO_EPS /\ op.warmth <= ZERO_EPS)
        /\ RestoreCalls # {} => SetCalls = {} /\ installed = AllDefault
        /\ RestoreCalls = {} =>
              \A i \in SetCalls :
                  <<calls[i].r, calls[i].g, calls[i].b>> = op.out
\* the restore case on the threshold itself, with a control that is not zero
C2_Witness ==
    /\ Applied /\ calls = <<RestoreCall>>
    /\ op.intensity = ZERO_EPS /\ op.warmth = 0

\* C3: with intensity <= 1e-3 and warmth > 1e-3 the brightness curve is the
\* identity ramp and the composed curve equals the pure warmth curve, sample
\* for sample in every channel.
C3_IdentityBaseNoop ==
    (Composed /\ op.intensity <= ZERO_EPS) =>
        /\ op.base = Gray(Xs(op.n))
        /\ op.out = op.tint
        /\ op.out = build_warmth_only_luts(op.warmth, op.n)
C3_Witness ==
    /\ Composed /\ op.intensity <= ZERO_EPS /\ op.warmth = SCALE
    /\ op.n = MaxN /\ SetCalls # {}
    /\ op.tint[1] # op.tint[3]

HalfStep(a, b, n) == 2 * (n - 1) * Abs(a - b) <= SCALE + (n - 1)
\* C4 as claimed: with warmth <= 1e-3 and intensity > 1e-3 the composed
\* curve equals the pure brightness curve exactly.
C4_Claimed_IdentityTintNoop ==
    (Composed /\ op.warmth <= ZERO_EPS) => op.out = op.base
\* C4 as amended: each composed sample is the identity-ramp sample nearest to
\* the brightness sample, so it is within half a grid step 1/(2(n-1)) of it
\* (plus the rounding of a stored sample).
C4_IdentityTintQuantizes ==
    (Composed /\ op.warmth <= ZERO_EPS) =>
        /\ op.tint = Gray(Xs(op.n))
        /\ \A c \in 1..3 : \A i \in 1..op.n :
              /\ \E j \in 1..op.n : op.out[c][i] = Xs(op.n)[j]
              /\ HalfStep(op.out[c][i], op.base[c][i], op.n)
\* a brightness sample off the grid was moved by the resampling
C4_Witness ==
    /\ Composed /\ op.warmth <= ZERO_EPS /\ op.intensity = SCALE
    /\ op.out # op.base /\ SetCalls # {}

Called(fn) == call.fn = fn
\* C5: _remap_slider(0) = 0 and _remap_slider(1) = 1, in lut.py and warmth.py.
C5_Claimed_RemapEndpoints ==
    Called("remap_slider") =>
        /\ call.a = 0 => call.lut_a = 0 /\ call.warmth_a = 0
        /\ call.b = SCALE => call.lut_b = SCALE /\ call.warmth_b = SCALE

\* C6: _remap_slider is non-decreasing over [0,1]: for slider positions
\* a <= b, remap(a) <= remap(b), in lut.py and warmth.py.
C6_Claimed_RemapMonotone ==
    (Called("remap_slider") /\ call.a <= call.b) =>
        /\ call.lut_a <= call.lut_b
        /\ call.warmth_a <= call.warmth_b

\* C7: guard, offset and beta of _brightness_params_from_slider take the same
\* value at the end of phase A as at the start of phase B (s = splitA), and at
\* the end of phase B as at the start of phase C (s = splitB); nowhere do they
\* jump between one grid position and the next.
C7_PhaseContinuity ==
    Called("brightness_phase") =>
        /\ call.s = splitA => call.at = phase_A(splitA) /\ call.at = phase_B(splitA)
        /\ call.s = splitB => call.at = phase_B(splitB) /\ call.at = phase_C(splitB)
        /\ \A c \in 1..3 : Abs(call.after[c] - call.at[c]) <= 2
C7_Witness ==
    /\ Called("brightness_phase") /\ call.s = splitB
    /\ call.after # call.at

\* C8: intensity = 1.0 puts the brightness builder in phase C with u = 1:
\* guard = 0.38, offset = 0.44, beta = 0.55; the curve's sample at x = 0 is 0
\* and its sample at x = 1 is (1 - offset) * beta.
C8_Claimed_FullIntensity ==
    (Composed /\ op.intensity = SCALE /\ op.warmth = 0) =>
        /\ op.params = <<Lit(38, 100), GUARD_WIDTH, Lit(44, 100), Lit(55, 100)>>
        /\ op.base[1][1] = 0
        /\ op.base[1][op.n] = MulFP(SCALE - op.params[3], op.params[4])

\* C9: warmth = 1.0 gives exactly kelvin_min = 1900 K, and every warmth in
\* (1e-3, 1] gives a kelvin within [1900, 6500].
C9_Claimed_FullWarmthKelvin ==
    (Called("warmth_params") /\ call.strength > ZERO_EPS /\ call.strength <= SCALE) =>
        /\ call.params # << >>
        /\ KELVIN_MIN <= call.params[1] /\ call.params[1] <= KELVIN_MAX
        /\ call.strength = SCALE => call.params[1] = KELVIN_MIN

\* C10: with preserve_peak, _kelvin_to_gains returns gains whose maximum is
\* <= 1.0, each >= 0, and returns the raw gains unchanged when their maximum
\* is already <= 1.0.
C10_PeakNormalised ==
    (Called("kelvin_to_gains") /\ call.preserve_peak) =>
        /\ Max3(call.gains) <= SCALE
        /\ \A c \in 1..3 : call.gains[c] >= 0
        /\ Max3(call.raw) <= SCALE => call.gains = call.raw
\* a kelvin whose raw gains exceed 1.0, scaled down
C10_Witness ==
    /\ Called("kelvin_to_gains") /\ call.preserve_peak
    /\ Max3(call.raw) > SCALE /\ call.gains # call.raw

\* C11: the curves apply_combined composes depend on its three arguments
\* only: a call with the arguments of the previous call composes the same
\* curves whatever lut.py and warmth.py were asked to do in between, and
\* no call of apply_combined changes lut.CURRENT or warmth.CURRENT.
SameArguments ==
    /\ op'.intensity = op.intensity
    /\ op'.warmth = op.warmth
    /\ op'.n = op.n
C11_HistoryIndependent ==
    [][ /\ (Composed /\ Composed' /\ SameArguments) =>
              (op'.base = op.base /\ op'.tint = op.tint /\ op'.out = op.out)
        /\ (op' # op) =>
              (lut_CURRENT' = lut_CURRENT /\ warmth_CURRENT' = warmth_CURRENT) ]_vars
C11_Witness ==
    /\ Composed /\ op.intensity = SCALE /\ op.warmth = SCALE
    /\ calls # << >> /\ calls = SetAll(active_displays, op.n, op.out)
    /\ lut_CURRENT.enabled
    /\ warmth_CURRENT.enabled /\ warmth_CURRENT.kelvin = 2700 * KELVIN_UNIT

\* C12 as claimed: for base and tint curves of any two lengths >= 2 the
\* call succeeds and each composed sample is the tint sample at the index
\* round(clamp(base sample) * (len(tint) - 1)), the tint's own count.
C12_Claimed_ComposeByTintLength ==
    Called("compose_luts") =>
        /\ ~call.raised
        /\ \A c \in 1..3 : \A i \in 1..Len(call.base[c]) :
              call.out[c][i] =
                call.tint[c][sample_index(call.base[c][i], Len(call.tint[c])) + 1]

\* C13: an apply_combined call with a control above 1e-3 always builds and
\* composes its curve; with no active display (an empty list, or an error
\* from the enumeration) it installs nothing, and otherwise it installs the
\* one composed (r,g,b) table exactly once on each active display.
NoDisplay == enumErr \/ Len(displays) = 0
C13_EmptyDisplaysNoop ==
    Composed =>
        /\ ValidCurve(op.out[1], op.n)
        /\ NoDisplay => (calls = << >> /\ installed = AllDefault)
        /\ ~NoDisplay =>
              /\ Len(calls) = Len(displays)
              /\ \A k \in 1..Len(displays) :
                    /\ calls[k] = SetCall(displays[k], op.n, op.out)
                    /\ installed[displays[k]] =
                          <<op.n, op.out[1], op.out[2], op.out[3]>>
C13_Witness ==
    /\ Composed /\ enumErr /\ Len(displays) > 0
    /\ op.intensity = SCALE /\ op.warmth = SCALE /\ op.n = MaxN
    /\ calls = << >>

\* C14: for every n >= 2 and every guard, guard_width, offset, beta and
\* white_cap, in range or not, build_lut_subtractive_guarded returns n
\* samples in [0,1], non-decreasing, the first one 0.0, the same in the R, G
\* and B channels.
C14_DegenerateTuningValid ==
    Called("build_lut") =>
        /\ ValidCurve(call.lut[1], call.n)
        /\ call.lut[1][1] = 0
        /\ call.lut[2] = call.lut[1] /\ call.lut[3] = call.lut[1]
C14_Witness ==
    /\ Called("build_lut") /\ call.n = MaxN
    /\ call.guard_width < 0 /\ call.offset > SCALE /\ call.beta > SCALE
    /\ call.white_cap = <<-Lit(1, 2)>>
    /\ call.g1 = call.g0

\* C15 as claimed: for every guard in [0,1] and every guard_width the band
\* edges build_lut_subtractive_guarded hands to _smoothstep satisfy
\* g1 >= g0 + 0.002.
C15_Claimed_BandAtLeastTwoThousandths ==
    (Called("build_lut") /\ 0 <= call.guard /\ call.guard <= SCALE) =>
        call.g1 >= call.g0 + Lit(2, 1000)

\* C16 as claimed: for every intensity in (1e-3, 1], in each phase,
\* composer._brightness_params_from_slider and lut.set_intensity compute the
\* same (guard, guard_width, offset, beta).
C16_Claimed_SameParamsAsSetIntensity ==
    (Called("intensity_params") /\ call.s_user <= SCALE) =>
        call.composer = call.lut

\* C17 as claimed: after any menubar handler other than Reset (and Quit),
\* whenever brightness is unmuted and the brightness slider is above 0.001,
\* the table left on every active display contains the brightness dimming:
\* it is the slider's brightness table, alone or composed with the warmth
\* slider's tint, not the system default and not a warmth-only table.
BrightnessTable == set_intensity_result(AllDefault, lut_CURRENT, app.lutSlider,
                                        DefaultN, << >>).tables
Dimmed(e, t) ==
    /\ e # << >>
    /\ <<e[2], e[3], e[4]>> \in
          {t, compose_luts(t, build_warmth_only_luts(app.warmthSlider, DefaultN))}
C17_Claimed_BrightnessSurvivesWarmth ==
    (/\ mod.name \in {"lutSliderChanged_", "toggleBrightnessAction_",
                       "warmthSliderChanged_", "toggleWarmthAction_",
                       "reapplyNotif_"}
     /\ ~app.isMutedLUT /\ app.lutSlider > ZERO_EPS) =>
        \A i \in 1..Len(active_displays) :
            Dimmed(installed[active_displays[i]], BrightnessTable)

\* C18 as claimed: after enable_(a) with a > 0 the manager's alpha is a
\* clamped to [0,1], every overlay view was initialised with that alpha, and
\* so the alpha > 0 guard of screensChanged_ passes.
C18_Claimed_EnableKeepsAlpha ==
    (mod.name = "enable_" /\ mod.alpha > 0) =>
        /\ manager.alpha = Max2(0, Min2(SCALE, mod.alpha))
        /\ Len(manager.windows) = screens
        /\ \A i \in 1..Len(manager.windows) : manager.windows[i] = manager.alpha
        /\ manager.alpha > 0

\* C19: when the latest table-changing call into warmth.py was a
\* set_warmth(strength > 1e-3) or set_kelvin that installed its tables,
\* reapply_if_enabled (called directly or from the display-reconfiguration
\* callback) installs exactly those three channel tables, on every display
\* active by then; when it was warmth.disable or set_warmth(<= 1e-3),
\* reapply_if_enabled installs nothing.
Reapplied ==
    mod.name \in {"reapply_if_enabled", "warmth_display_reconfig_callback"}
C19_ReapplyRoundTrip ==
    Reapplied =>
        /\ hist.warmth = "installed" =>
              calls = SetAll(active_displays, Len(hist.tables[1]), hist.tables)
        /\ hist.warmth = "restored" => calls = << >>
C19_Witness ==
    /\ mod.name = "warmth_display_reconfig_callback" /\ hist.warmth = "installed"
    /\ calls # << >>
    /\ warmth_CURRENT.n # DefaultN /\ warmth_CURRENT.beta # SCALE
    /\ Len(displays) > 1 /\ displays # AllDisplays

\* C20 as claimed: in lut.py and in warmth.py, CURRENT["enabled"] is True
\* only if the module's latest table-changing call installed a table on at
\* least one active display, and False once the module restored the system
\* colours.
C20_Claimed_EnabledMeansInstalled ==
    /\ lut_CURRENT.enabled => hist.lut = "installed"
    /\ hist.lut = "restored" => ~lut_CURRENT.enabled
    /\ warmth_CURRENT.enabled => hist.warmth = "installed"
    /\ hist.warmth = "restored" => ~warmth_CURRENT.enabled
====
